---- MODULE Spec2Model ----
(***************************************************************************)
(* Health-Monitor (src/app.py): the extraction -> validation ->            *)
(* classification -> aggregation pipeline of the Dash application.         *)
(*                                                                         *)
(* Text is modelled as a sequence of symbols.  Fields the code takes apart *)
(* character by character ('Value', 'Reference Range', 'Date') are         *)
(* sequences of one-character symbols; fields it only compares ('Name',    *)
(* 'Test Name', 'Unit') are sequences whose words are single symbols.      *)
(* Python's None is the one-symbol sequence None, whose symbol occurs in   *)
(* no text.  A Python float is the exact decimal it was read from, kept as *)
(* numerator and power-of-ten denominator.                                 *)
(***************************************************************************)
EXTENDS Integers, Sequences, FiniteSets, TLC

VARIABLES contents, clean_calls, upload_feedback, table, options, data, analyze_table,
          selected_names, charts, pc

vars == <<contents, clean_calls, upload_feedback, table, options, data, analyze_table,
          selected_names, charts, pc>>

(***************************************************************************)
(* Bounds of the model                                                     *)
(***************************************************************************)
MaxRows == 2

MaxDocs == 2

MaxChartRows == 2

(***************************************************************************)
(* Text                                                                    *)
(***************************************************************************)
None == <<"<None>">>

Whitespace == {" ", "\n"}

DigitChars == <<"0", "1", "2", "3", "4", "5", "6", "7", "8", "9">>

IsDigit(c) == \E i \in 1..Len(DigitChars) : DigitChars[i] = c

DigitVal(c) == (CHOOSE i \in 1..Len(DigitChars) : DigitChars[i] = c) - 1

SeqsUpTo(S, n) == UNION {[1..k -> S] : k \in 0..n}

Range(s) == {s[i] : i \in 1..Len(s)}

\* str.strip(): leading and trailing whitespace removed
RECURSIVE LStrip(_)
LStrip(s) ==
    IF s # <<>> /\ Head(s) \in Whitespace THEN LStrip(Tail(s)) ELSE s

RECURSIVE RStrip(_)
RStrip(s) ==
    IF s # <<>> /\ s[Len(s)] \in Whitespace
    THEN RStrip(SubSeq(s, 1, Len(s) - 1))
    ELSE s

Strip(s) == RStrip(LStrip(s))

\* s[1:]
Rest(s) == SubSeq(s, 2, Len(s))

\* the positions at which sep occurs in s
Occurrences(s, sep) ==
    {i \in 1..(Len(s) - Len(sep) + 1) : SubSeq(s, i, i + Len(sep) - 1) = sep}

\* str.split(sep) for a non-empty separator: cut at the non-overlapping
\* occurrences of sep, left to right; always at least one part
RECURSIVE Split(_, _)
Split(s, sep) ==
    LET occ == Occurrences(s, sep)
    IN  IF occ = {}
        THEN <<s>>
        ELSE LET i == CHOOSE j \in occ : \A k \in occ : j <= k
             IN  <<SubSeq(s, 1, i - 1)>>
                     \o Split(SubSeq(s, i + Len(sep), Len(s)), sep)

(***************************************************************************)
(* Texts of the model                                                      *)
(***************************************************************************)
Txt1 == <<"1">>
Txt2p5 == <<"2", ".", "5">>
Txt3 == <<"3">>
Dash == <<"-">>
SpacedDash == <<" ", "-", " ">>
SomeDate == <<"1", "2", "/", "0", "3", "/", "2", "0", "2", "3">>
Hemoglobin == <<"Hemoglobin">>
gdL == <<"g/dL">>
PatientA == <<"John Smith">>
PatientB == <<"Jane Doe">>
TSH == <<"TSH">>
Feb1 == <<"1", "/", "2", "/", "2", "0", "2", "3">>
Jan2 == <<"2", "/", "1", "/", "2", "0", "2", "3">>
NA == <<"N", "/", "A">>
Slash == <<"/">>

(***************************************************************************)
(* float(): surrounding whitespace is ignored, then an optional sign, then *)
(* digits with at most one decimal point and at least one digit.  Anything *)
(* else over the symbols of the model raises ValueError.                   *)
(***************************************************************************)
ValueError == [ok |-> FALSE, num |-> 0, den |-> 1]

RECURSIVE DigitsToInt(_)
DigitsToInt(s) ==
    IF s = <<>> THEN 0
    ELSE 10 * DigitsToInt(SubSeq(s, 1, Len(s) - 1)) + DigitVal(s[Len(s)])

RECURSIVE Pow10(_)
Pow10(n) == IF n = 0 THEN 1 ELSE 10 * Pow10(n - 1)

IsPoint(c) == c = "."

NotPoint(c) == c # "."

float(s) ==
    LET t      == Strip(s)
        signed == t # <<>> /\ Head(t) \in {"+", "-"}
        body   == IF signed THEN Tail(t) ELSE t
        digits == SelectSeq(body, NotPoint)
        points == Len(SelectSeq(body, IsPoint))
        frac   == IF points = 0 THEN 0
                  ELSE Len(body) - (CHOOSE i \in 1..Len(body) : body[i] = ".")
        wellformed == /\ digits # <<>>
                      /\ \A i \in 1..Len(digits) : IsDigit(digits[i])
                      /\ points <= 1
    IN  IF ~wellformed THEN ValueError
        ELSE [ok  |-> TRUE,
              num |-> IF signed /\ Head(t) = "-"
                      THEN 0 - DigitsToInt(digits)
                      ELSE DigitsToInt(digits),
              den |-> Pow10(frac)]

\* a < b and a > b on floats
FloatLess(a, b) == a.num * b.den < b.num * a.den

FloatGreater(a, b) == FloatLess(b, a)

(***************************************************************************)
(* Records of the data table                                               *)
(***************************************************************************)
Row(name, date, test, value, unit, range) ==
    ("Name" :> name) @@ ("Date" :> date) @@ ("Test Name" :> test)
        @@ ("Value" :> value) @@ ("Unit" :> unit)
        @@ ("Reference Range" :> range)

\* item['Category'] = c
SetCategory(item, c) == ("Category" :> c) @@ item

HasCategory(item) == "Category" \in DOMAIN item

(***************************************************************************)
(* The vocabulary of the validator                                         *)
(***************************************************************************)
VALID_UNITS ==
    {<<u>> : u \in {"g/dL", "mg/dL", "mmol/L", "IU/L", "%", "fl", "pg", "pg/mL",
                    "µL", "nmol/L", "µIU/mL", "mL/min/1.73m2", "U/L", "thou/mm3"}}

VALID_TEST_NAMES ==
    {<<t>> : t \in
        {"Creatinine", "GFR Estimated", "Glucose Fasting", "Cyanocobalamin",
         "Hemoglobin", "RBC", "WBC", "Platelets", "Cholesterol", "25 Hydroxy",
         "T3, Total", "T4, Total", "TSH", "Phosphorus", "Sodium", "Potassium",
         "Chloride", "GFR Category G2", "Urea", "Urea Nitrogen Blood", "Total",
         "Triglycerides", "HDL Cholesterol", "Calculated", "Uric Acid", "GGTP",
         "00 RBC Count", "HbA1c", "MCV", "MCH", "MCHC", "Segmented Neutrophils",
         "Lymphocytes", "Monocytes", "Eosinophils", "Basophils",
         "Absolute Leucocyte Count", "Neutrophils", "Platelet Count",
         "Bilirubin Direct", "Bilirubin Total", "Bilirubin Indirect",
         "Total Protein", "Albumin", "G Ratio"}}

\* the test with 'or' in place of 'and'
IsValidEntryEither(entry) ==
    entry["Test Name"] \in VALID_TEST_NAMES \/ entry["Unit"] \in VALID_UNITS

\* the test of the if in clean_data
IsValidEntry(entry) ==
    entry["Test Name"] \in VALID_TEST_NAMES /\ entry["Unit"] \in VALID_UNITS

\* clean_data: the loop over data from entry i on
RECURSIVE CleanFrom(_, _, _)
CleanFrom(d, i, cleaned_data) ==
    IF i > Len(d) THEN cleaned_data
    ELSE IF IsValidEntry(d[i])
    THEN CleanFrom(d, i + 1, Append(cleaned_data, d[i]))
    ELSE CleanFrom(d, i + 1, cleaned_data)

clean_data(d) == CleanFrom(d, 1, <<>>)

(***************************************************************************)
(* extract_all_data_from_pdf.  A document is what the three patterns find  *)
(* in its text: name_match and date_match are the result of re.search (the *)
(* empty sequence when there is none, else the one captured text), matches *)
(* the list of re.findall, four groups each.                               *)
(***************************************************************************)
\* extracted_data, the list handed to clean_data
ExtractedData(content) ==
    LET patient_name    == IF content.name_match # <<>>
                           THEN content.name_match[1] ELSE None
        collection_date == IF content.date_match # <<>>
                           THEN content.date_match[1] ELSE None
    IN  [k \in 1..Len(content.matches) |->
            Row(patient_name, collection_date,
                Strip(content.matches[k][1]), Strip(content.matches[k][2]),
                Strip(content.matches[k][3]), Strip(content.matches[k][4]))]

extract_all_data_from_pdf(content) == clean_data(ExtractedData(content))

\* files_data had patient_name and collection_date been set once for the
\* batch and not once per document: a document without a match keeps what
\* an earlier document found
RECURSIVE FilesDataCarried(_, _, _)
FilesDataCarried(files, name, date) ==
    IF files = <<>> THEN <<>>
    ELSE LET doc == Head(files)
             n   == IF doc.name_match # <<>> THEN doc.name_match ELSE name
             d   == IF doc.date_match # <<>> THEN doc.date_match ELSE date
         IN  extract_all_data_from_pdf(
                 [name_match |-> n, date_match |-> d, matches |-> doc.matches])
                 \o FilesDataCarried(Tail(files), n, d)

FilesDataShared(files) == FilesDataCarried(files, <<>>, <<>>)

\* files_data after the loop over the uploaded files
RECURSIVE FilesData(_)
FilesData(files) ==
    IF files = <<>> THEN <<>>
    ELSE extract_all_data_from_pdf(Head(files)) \o FilesData(Tail(files))

\* table_data: one new row of six fields for every entry of files_data
TableData(files_data) ==
    [k \in 1..Len(files_data) |->
        Row(files_data[k]["Name"], files_data[k]["Date"],
            files_data[k]["Test Name"], files_data[k]["Value"],
            files_data[k]["Unit"], files_data[k]["Reference Range"])]

\* the values of the dropdown: the names of files_data that are not None
DropdownOptions(files_data) ==
    {files_data[k]["Name"] : k \in 1..Len(files_data)} \ {None}

NoContents == [none |-> TRUE, files |-> <<>>]

NoFeedback == [text |-> "", count |-> 0]

handle_upload ==
    /\ pc = "upload"
    /\ IF contents.none
       THEN /\ upload_feedback' = [text |-> "No file uploaded yet.", count |-> 0]
            /\ clean_calls' = <<>>
            /\ table' = <<>>
            /\ options' = {}
       ELSE LET files_data == FilesData(contents.files)
            IN  /\ upload_feedback' =
                       [text |-> "Uploaded", count |-> Len(contents.files)]
                /\ clean_calls' =
                       [k \in 1..Len(contents.files) |->
                           [data         |-> ExtractedData(contents.files[k]),
                            cleaned_data |->
                                extract_all_data_from_pdf(contents.files[k])]]
                /\ table' = TableData(files_data)
                /\ options' = DropdownOptions(files_data)
    /\ pc' = "uploaded"
    /\ UNCHANGED <<contents, data, analyze_table, selected_names, charts>>

(***************************************************************************)
(* analyze_test_results: the body of the loop for one item.  The result is *)
(* the category assigned, or Raise when the statement raises.              *)
(***************************************************************************)
Raise == "Raise"

\* the loop body with the bounds of a two-sided range taken as exclusive
CategorizeExclusive(item) ==
    LET value == float(item["Value"])
        rr    == item["Reference Range"]
        parts == Split(rr, Dash)
    IN  IF ~value.ok THEN Raise
        ELSE IF Len(parts) = 2
        THEN LET low  == float(Strip(parts[1]))
                 high == float(Strip(parts[2]))
             IN  IF ~low.ok \/ ~high.ok THEN Raise
                 ELSE IF ~FloatGreater(value, low) THEN "Low"
                 ELSE IF ~FloatLess(value, high) THEN "High"
                 ELSE "Normal"
        ELSE IF rr = <<>> THEN Raise
        ELSE LET sign      == rr[1]
                 threshold == float(Rest(rr))
             IN  IF ~threshold.ok THEN Raise
                 ELSE IF sign = "<"
                 THEN IF FloatGreater(value, threshold) THEN "High" ELSE "Normal"
                 ELSE IF FloatLess(value, threshold) THEN "Low" ELSE "Normal"

Categorize(item) ==
    LET value == float(item["Value"])
        rr    == item["Reference Range"]
        parts == Split(rr, Dash)
    IN  IF ~value.ok THEN Raise
        ELSE IF Len(parts) = 2
        THEN LET low  == float(Strip(parts[1]))
                 high == float(Strip(parts[2]))
             IN  IF ~low.ok \/ ~high.ok THEN Raise
                 ELSE IF FloatLess(value, low) THEN "Low"
                 ELSE IF FloatGreater(value, high) THEN "High"
                 ELSE "Normal"
        ELSE IF rr = <<>> THEN Raise
        ELSE LET sign      == rr[1]
                 threshold == float(Rest(rr))
             IN  IF ~threshold.ok THEN Raise
                 ELSE IF sign = "<"
                 THEN IF FloatGreater(value, threshold) THEN "High" ELSE "Normal"
                 ELSE IF FloatLess(value, threshold) THEN "Low" ELSE "Normal"

\* the for loop over data, from item i on: items are updated in place until
\* one raises
RECURSIVE AnalyzeLoop(_, _)
AnalyzeLoop(d, i) ==
    IF i > Len(d) THEN [raised |-> FALSE, data |-> d]
    ELSE LET c == Categorize(d[i])
         IN  IF c = Raise THEN [raised |-> TRUE, data |-> d]
             ELSE AnalyzeLoop([d EXCEPT ![i] = SetCategory(d[i], c)], i + 1)

\* what the callback gives back: the list it was given, or nothing when it
\* raised
NoOutput == [raised |-> TRUE, rows |-> <<>>]

analyze_test_results ==
    /\ pc = "analyze"
    /\ LET r == AnalyzeLoop(table, 1)
       IN  /\ data' = r.data
           /\ analyze_table' = IF r.raised THEN NoOutput
                               ELSE [raised |-> FALSE, rows |-> r.data]
    /\ pc' = "analyzed"
    /\ UNCHANGED <<contents, clean_calls, upload_feedback, table, options,
                   selected_names, charts>>

(***************************************************************************)
(* Inputs of the upload: the documents of one batch                        *)
(***************************************************************************)

Matches ==
    {<<<<"\n", "Hemoglobin">>, Txt1, gdL, Txt1 \o SpacedDash \o Txt3 \o <<" ">>>>,
     <<TSH, Txt3, <<"µIU/mL">>, <<"<">> \o Txt2p5>>,
     <<<<"RandomNoise">>, <<"4", "2">>, <<"mg/dL">>, <<"s", "o", "m", "e">>>>,
     <<Hemoglobin, Txt2p5, <<"xx">>, <<>>>>}

\* what the name and the date pattern find in a document
Headers == {<<<<>>, <<>>>>, <<<<PatientA>>, <<Jan2>>>>, <<<<PatientB>>, <<>>>>}

Documents ==
    {[name_match |-> h[1], date_match |-> h[2], matches |-> m] :
        h \in Headers, m \in SeqsUpTo(Matches, 2)}

Uploads ==
    {NoContents} \cup
        {[none |-> FALSE, files |-> f] : f \in SeqsUpTo(Documents, MaxDocs) \ {<<>>}}

Init ==
    /\ contents \in Uploads
    /\ clean_calls = <<>>
    /\ upload_feedback = NoFeedback
    /\ table = <<>>
    /\ options = {}
    /\ data = <<>>
    /\ analyze_table = [raised |-> FALSE, rows |-> <<>>]
    /\ selected_names = <<>>
    /\ charts = [raised |-> FALSE, figures |-> <<>>]
    /\ pc = "upload"

Next == handle_upload

Spec == Init /\ [][Next]_vars

(***************************************************************************)
(* Properties of the validator and of the upload                           *)
(***************************************************************************)
InVocabulary(entry) ==
    /\ \E t \in VALID_TEST_NAMES : entry["Test Name"] = t
    /\ \E u \in VALID_UNITS : entry["Unit"] = u

\* the position in d of the n-th entry that is in the vocabulary
NthKept(d, n) ==
    CHOOSE i \in 1..Len(d) :
        /\ InVocabulary(d[i])
        /\ Cardinality({j \in 1..i : InVocabulary(d[j])}) = n

\* C1: clean_data returns exactly the entries whose 'Test Name' is in
\* VALID_TEST_NAMES and whose 'Unit' is in VALID_UNITS, in their original
\* order and unchanged.
C1_CleanDataIsTheValidSubsequence ==
    pc = "uploaded" =>
        \A c \in 1..Len(clean_calls) :
            LET d   == clean_calls[c].data
                out == clean_calls[c].cleaned_data
            IN  /\ Len(out) = Cardinality({i \in 1..Len(d) : InVocabulary(d[i])})
                /\ \A n \in 1..Len(out) : out[n] = d[NthKept(d, n)]

\* a document whose first entry has an unknown test name and whose second
\* entry is valid was cleaned to the second entry alone
C1_Witness ==
    /\ pc = "uploaded"
    /\ \E c \in 1..Len(clean_calls) :
           LET d == clean_calls[c].data
           IN  /\ Len(d) = 2
               /\ d[1]["Test Name"] = <<"RandomNoise">>
               /\ d[2]["Test Name"] = Hemoglobin
               /\ d[2]["Unit"] = gdL
               /\ clean_calls[c].cleaned_data = <<d[2]>>

\* the matches of document k that the validator keeps
KeptMatches(k) ==
    {m \in 1..Len(contents.files[k].matches) :
        /\ \E t \in VALID_TEST_NAMES : Strip(contents.files[k].matches[m][1]) = t
        /\ \E u \in VALID_UNITS : Strip(contents.files[k].matches[m][3]) = u}

KeptOfBatch ==
    UNION {{<<k, m>> : m \in KeptMatches(k)} : k \in 1..Len(contents.files)}

Before(a, b) == a[1] < b[1] \/ (a[1] = b[1] /\ a[2] <= b[2])

\* C9: the table is the concatenation, in upload order, of the validated
\* observations of each document; every row carries the name and the date
\* found in its own document, or None where that document has none.
C9_RowsCarryTheirOwnDocument ==
    (pc = "uploaded" /\ ~contents.none) =>
        /\ Len(table) = Cardinality(KeptOfBatch)
        /\ \A km \in KeptOfBatch :
               LET n   == Cardinality({o \in KeptOfBatch : Before(o, km)})
                   doc == contents.files[km[1]]
               IN  /\ table[n]["Name"] =
                          IF doc.name_match = <<>> THEN None ELSE doc.name_match[1]
                   /\ table[n]["Date"] =
                          IF doc.date_match = <<>> THEN None ELSE doc.date_match[1]
                   /\ table[n]["Test Name"] = Strip(doc.matches[km[2]][1])
                   /\ table[n]["Value"] = Strip(doc.matches[km[2]][2])
                   /\ table[n]["Unit"] = Strip(doc.matches[km[2]][3])
                   /\ table[n]["Reference Range"] = Strip(doc.matches[km[2]][4])

\* a document with a name and a date followed by a document with neither:
\* the row of the first carries them, the row of the second carries None
C9_Witness ==
    /\ pc = "uploaded"
    /\ ~contents.none
    /\ Len(contents.files) = 2
    /\ contents.files[1].name_match = <<PatientA>>
    /\ contents.files[1].date_match = <<Jan2>>
    /\ contents.files[2].name_match = <<>>
    /\ contents.files[2].date_match = <<>>
    /\ Len(table) = 2
    /\ table[1]["Name"] = PatientA /\ table[1]["Date"] = Jan2
    /\ table[2]["Name"] = None /\ table[2]["Date"] = None

(***************************************************************************)
(* Inputs of the classifier: rows as handle_upload produces them.  'Value' *)
(* matches [\d.,]+ and 'Reference Range' is the stripped rest of the line. *)
(***************************************************************************)

Numerals == {Txt1, Txt2p5, Txt3}

Values == Numerals \cup {<<"1", ",", "5">>}

BoundedRanges ==
    {lo \o SpacedDash \o hi : lo \in Numerals, hi \in Numerals}
        \cup {Txt1 \o Dash \o Txt3}

OneSidedRanges == {<<s>> \o t : s \in {"<", ">", "="},
                                t \in {Txt2p5, <<"-">> \o Txt2p5}}

OtherRanges == {<<>>, Txt2p5, Txt1 \o SpacedDash \o Txt2p5 \o SpacedDash \o Txt3}

RangeTexts == BoundedRanges \cup OneSidedRanges \cup OtherRanges

AnalyzeRows == {Row(PatientA, SomeDate, Hemoglobin, v, gdL, r) :
                    v \in Values, r \in RangeTexts}

InitAnalyze ==
    /\ table \in SeqsUpTo(AnalyzeRows, MaxRows)
    /\ contents = NoContents
    /\ clean_calls = <<>>
    /\ upload_feedback = NoFeedback
    /\ options = {}
    /\ data = <<>>
    /\ analyze_table = [raised |-> FALSE, rows |-> <<>>]
    /\ selected_names = <<>>
    /\ charts = [raised |-> FALSE, figures |-> <<>>]
    /\ pc = "analyze"

NextAnalyze == analyze_test_results

SpecAnalyze == InitAnalyze /\ [][NextAnalyze]_vars

(***************************************************************************)
(* Properties of the classifier                                            *)
(***************************************************************************)
\* the shapes of a reference range, as the specification words them
TwoNumericParts(rr) ==
    LET parts == Split(rr, Dash)
    IN  /\ Len(parts) = 2
        /\ Strip(parts[1]) # <<>> /\ float(Strip(parts[1])).ok
        /\ Strip(parts[2]) # <<>> /\ float(Strip(parts[2])).ok

LowOf(rr) == float(Strip(Split(rr, Dash)[1]))

HighOf(rr) == float(Strip(Split(rr, Dash)[2]))

OneNumericThreshold(rr) ==
    /\ ~TwoNumericParts(rr)
    /\ rr # <<>>
    /\ float(Rest(rr)).ok

NumericValue(row) == float(row["Value"]).ok

\* the loop reached item i: every item before it was given a category
Reached(i) == \A j \in 1..(i - 1) : HasCategory(data[j])

\* C2: an item with a numeric value and a range of two non-empty numeric
\* parts low and high is 'Low' when value < low, 'High' when value > high
\* and 'Normal' otherwise, so it is 'Normal' iff low <= value <= high.
C2_BoundedCategory ==
    pc = "analyzed" =>
        \A i \in 1..Len(table) :
            (NumericValue(table[i]) /\ TwoNumericParts(table[i]["Reference Range"])
                /\ Reached(i)) =>
            LET v  == float(table[i]["Value"])
                lo == LowOf(table[i]["Reference Range"])
                hi == HighOf(table[i]["Reference Range"])
            IN  /\ HasCategory(data[i])
                /\ (v.num * lo.den < lo.num * v.den) => data[i]["Category"] = "Low"
                /\ (~(v.num * lo.den < lo.num * v.den)
                        /\ v.num * hi.den > hi.num * v.den)
                    => data[i]["Category"] = "High"
                /\ data[i]["Category"] = "Normal"
                    <=> (lo.num * v.den <= v.num * lo.den
                            /\ v.num * hi.den <= hi.num * v.den)

\* a value equal to the upper bound of its range came out 'Normal', after an
\* item that came out 'Low'
C2_Witness ==
    /\ pc = "analyzed"
    /\ Len(table) = 2
    /\ table[1]["Value"] = Txt1
    /\ table[1]["Reference Range"] = Txt2p5 \o SpacedDash \o Txt3
    /\ data[1]["Category"] = "Low"
    /\ table[2]["Value"] = Txt2p5
    /\ table[2]["Reference Range"] = Txt1 \o SpacedDash \o Txt2p5
    /\ HasCategory(data[2])
    /\ data[2]["Category"] = "Normal"

\* C3: an item with a numeric value whose range is not two non-empty numeric
\* parts is classified by the first character: '<' gives 'High' iff
\* value > threshold, any other character gives 'Low' iff value < threshold,
\* and 'Normal' otherwise, the threshold being the rest of the range read as
\* a number.
C3_OneSidedCategory ==
    pc = "analyzed" =>
        \A i \in 1..Len(table) :
            (NumericValue(table[i]) /\ OneNumericThreshold(table[i]["Reference Range"])
                /\ Reached(i)) =>
            LET v  == float(table[i]["Value"])
                rr == table[i]["Reference Range"]
                t  == float(Rest(rr))
            IN  /\ HasCategory(data[i])
                /\ rr[1] = "<" =>
                       data[i]["Category"] =
                           IF v.num * t.den > t.num * v.den THEN "High" ELSE "Normal"
                /\ rr[1] # "<" =>
                       data[i]["Category"] =
                           IF v.num * t.den < t.num * v.den THEN "Low" ELSE "Normal"

\* C4: a malformed item (non-numeric value, empty or unparseable range) is
\* the only one left out: the classification completes and every other item
\* of the batch is returned with its category.
WellFormedItem(row) ==
    /\ NumericValue(row)
    /\ \/ TwoNumericParts(row["Reference Range"])
       \/ OneNumericThreshold(row["Reference Range"])

Classified(row, out) ==
    /\ HasCategory(out)
    /\ \A f \in DOMAIN row : out[f] = row[f]

C4_MalformedItemContained ==
    pc = "analyzed" =>
        /\ ~analyze_table.raised
        /\ \A i \in 1..Len(table) :
               WellFormedItem(table[i]) =>
                   \E j \in 1..Len(analyze_table.rows) :
                       Classified(table[i], analyze_table.rows[j])

\* C8: classification leaves the records it was given as they were: the
\* list handed to analyze_test_results holds the same records afterwards.
C8_InputRecordsUnchanged ==
    pc = "analyzed" => data = table

(***************************************************************************)
(* update_charts                                                           *)
(***************************************************************************)

AllDigits(s) == s # <<>> /\ \A i \in 1..Len(s) : IsDigit(s[i])

DaysInMonth(y, m) ==
    IF m \in {4, 6, 9, 11} THEN 30
    ELSE IF m # 2 THEN 31
    ELSE IF (y % 4 = 0 /\ y % 100 # 0) \/ y % 400 = 0 THEN 29
    ELSE 28

BadDate == [ok |-> FALSE, year |-> 0, month |-> 0, day |-> 0]

\* datetime.strptime(date, '%d/%m/%Y'): TypeError on None, ValueError on a
\* text that is not day/month/year of a calendar date
strptime(date) ==
    IF date = None THEN BadDate
    ELSE LET parts == Split(date, Slash)
         IN  IF \/ Len(parts) # 3
                \/ \E i \in 1..3 : ~AllDigits(parts[i])
                \/ Len(parts[1]) > 2 \/ Len(parts[2]) > 2 \/ Len(parts[3]) # 4
             THEN BadDate
             ELSE LET d == DigitsToInt(parts[1])
                      m == DigitsToInt(parts[2])
                      y == DigitsToInt(parts[3])
                  IN  IF m \in 1..12 /\ y >= 1 /\ d >= 1 /\ d <= DaysInMonth(y, m)
                      THEN [ok |-> TRUE, year |-> y, month |-> m, day |-> d]
                      ELSE BadDate

\* a < b on datetimes
DateLess(a, b) ==
    \/ a.year < b.year
    \/ a.year = b.year /\ a.month < b.month
    \/ a.year = b.year /\ a.month = b.month /\ a.day < b.day

\* test_data: the nested dictionaries, as the list of their
\* (patient, test) entries in insertion order
EntryIndex(td, name, test) ==
    {k \in 1..Len(td) : td[k].patient = name /\ td[k].test = test}

AddRow(td, row) ==
    LET idx == EntryIndex(td, row["Name"], row["Test Name"])
    IN  IF idx = {}
        THEN Append(td, [patient |-> row["Name"],
                         test    |-> row["Test Name"],
                         values  |-> <<float(row["Value"])>>,
                         dates   |-> <<row["Date"]>>,
                         range   |-> <<row["Reference Range"]>>])
        ELSE LET k == CHOOSE j \in idx : TRUE
             IN  [td EXCEPT ![k].values = Append(@, float(row["Value"])),
                            ![k].dates  = Append(@, row["Date"]),
                            ![k].range  = Append(@, row["Reference Range"])]

\* the loop over table_data from row i on; raised when a float() raises
RECURSIVE BuildTestData(_, _, _, _)
BuildTestData(rows, sel, i, td) ==
    IF i > Len(rows) THEN [raised |-> FALSE, entries |-> td]
    ELSE IF rows[i]["Name"] \in Range(sel) /\ rows[i]["Value"] # NA
    THEN IF ~float(rows[i]["Value"]).ok
         THEN [raised |-> TRUE, entries |-> td]
         ELSE BuildTestData(rows, sel, i + 1, AddRow(td, rows[i]))
    ELSE BuildTestData(rows, sel, i + 1, td)

\* test_data[patient].keys()
RECURSIVE TestNames(_, _, _)
TestNames(td, name, k) ==
    IF k > Len(td) THEN <<>>
    ELSE IF td[k].patient = name
    THEN <<td[k].test>> \o TestNames(td, name, k + 1)
    ELSE TestNames(td, name, k + 1)

\* sorted(pairs, key=lambda x: x[0], reverse=True): newest first, pairs of
\* equal date in their original order
InsertByDate(sorted, pair) ==
    LET before == {k \in 1..Len(sorted) : ~DateLess(sorted[k][1], pair[1])}
        n      == Cardinality(before)
    IN  SubSeq(sorted, 1, n) \o <<pair>> \o SubSeq(sorted, n + 1, Len(sorted))

RECURSIVE SortFrom(_, _, _)
SortFrom(pairs, i, acc) ==
    IF i > Len(pairs) THEN acc
    ELSE SortFrom(pairs, i + 1, InsertByDate(acc, pairs[i]))

\* the same sort without reverse=True: oldest first
InsertByDateAscending(sorted, pair) ==
    LET before == {k \in 1..Len(sorted) : ~DateLess(pair[1], sorted[k][1])}
        n      == Cardinality(before)
    IN  SubSeq(sorted, 1, n) \o <<pair>> \o SubSeq(sorted, n + 1, Len(sorted))

RECURSIVE SortAscendingFrom(_, _, _)
SortAscendingFrom(pairs, i, acc) ==
    IF i > Len(pairs) THEN acc
    ELSE SortAscendingFrom(pairs, i + 1, InsertByDateAscending(acc, pairs[i]))

sorted_ascending(pairs) == SortAscendingFrom(pairs, 1, <<>>)

sorted_by_date(pairs) == SortFrom(pairs, 1, <<>>)

\* low and high are texts, or the float read from a one-sided range
TextRef(s) == [kind |-> "str", str |-> s, flt |-> ValueError]

FloatRef(f) == [kind |-> "float", str |-> <<>>, flt |-> f]

\* low, high of a series from the first reference range appended to it
RefPair(ranges) ==
    LET ref == Split(ranges[1], SpacedDash)
    IN  IF Len(ref) = 2
        THEN [raised |-> FALSE, low |-> TextRef(ref[1]), high |-> TextRef(ref[2])]
        ELSE LET f == float(Rest(ref[1]))
             IN  [raised |-> ~f.ok, low |-> TextRef(ref[1]), high |-> FloatRef(f)]

\* the scatter of one patient in the figure of one test, with its two
\* reference lines
Series(entry) ==
    LET dates == [k \in 1..Len(entry.dates) |-> strptime(entry.dates[k])]
        pairs == [k \in 1..Len(dates) |-> <<dates[k], entry.values[k]>>]
        sd    == sorted_by_date(pairs)
        ref   == RefPair(entry.range)
    IN  [raised |-> (\E k \in 1..Len(dates) : ~dates[k].ok) \/ ref.raised,
         name   |-> entry.patient,
         x      |-> [k \in 1..Len(sd) |-> sd[k][1]],
         y      |-> [k \in 1..Len(sd) |-> sd[k][2]],
         low    |-> ref.low,
         high   |-> ref.high]

RECURSIVE Scatters(_, _, _, _)
Scatters(td, sel, test, i) ==
    IF i > Len(sel) THEN <<>>
    ELSE LET idx == EntryIndex(td, sel[i], test)
         IN  IF idx = {} THEN Scatters(td, sel, test, i + 1)
             ELSE <<Series(td[CHOOSE k \in idx : TRUE])>>
                      \o Scatters(td, sel, test, i + 1)

Figure(td, sel, test) == [title |-> test, scatters |-> Scatters(td, sel, test, 1)]

NoCharts == [raised |-> TRUE, figures |-> <<>>]

Charts(sel, rows) ==
    IF sel = <<>> \/ rows = <<>> THEN [raised |-> FALSE, figures |-> <<>>]
    ELSE LET built == BuildTestData(rows, sel, 1, <<>>)
             td    == built.entries
             first_patient == sel[1]
             tests == TestNames(td, first_patient, 1)
             figs  == [k \in 1..Len(tests) |-> Figure(td, sel, tests[k])]
         IN  IF \/ built.raised
                \/ \E k \in 1..Len(figs) :
                       \E j \in 1..Len(figs[k].scatters) :
                           figs[k].scatters[j].raised
             THEN NoCharts
             ELSE [raised |-> FALSE, figures |-> figs]

update_charts ==
    /\ pc = "charts"
    /\ charts' = Charts(selected_names, table)
    /\ pc' = "charted"
    /\ UNCHANGED <<contents, clean_calls, upload_feedback, table, options, data,
                   analyze_table, selected_names>>

(***************************************************************************)
(* Inputs of the aggregator: a data table and a selection of the dropdown  *)
(***************************************************************************)
ChartDates == {Feb1, Jan2, None}

Readings == {<<Txt1, Txt1 \o SpacedDash \o Txt3>>,
             <<Txt2p5, <<"<">> \o Txt3>>,
             <<Txt3, Txt1 \o Dash \o Txt3>>}

ChartRows == {Row(n, d, t, vr[1], gdL, vr[2]) :
                  n \in {PatientA, PatientB}, d \in ChartDates,
                  t \in {Hemoglobin, TSH}, vr \in Readings}

Selections == {<<>>, <<PatientA>>, <<PatientB>>,
               <<PatientA, PatientB>>, <<PatientB, PatientA>>}

InitCharts ==
    /\ table \in SeqsUpTo(ChartRows, MaxChartRows)
    /\ selected_names \in Selections
    /\ contents = NoContents
    /\ clean_calls = <<>>
    /\ upload_feedback = NoFeedback
    /\ options = {}
    /\ data = <<>>
    /\ analyze_table = [raised |-> FALSE, rows |-> <<>>]
    /\ charts = [raised |-> FALSE, figures |-> <<>>]
    /\ pc = "charts"

NextCharts == update_charts

SpecCharts == InitCharts /\ [][NextCharts]_vars

(***************************************************************************)
(* Properties of the aggregator                                            *)
(***************************************************************************)
\* the rows of the table that belong to one (patient, test) pair
PairRows(name, test) ==
    {i \in 1..Len(table) : table[i]["Name"] = name /\ table[i]["Test Name"] = test}

\* the series of the charts, each with the test of its figure
AllSeries ==
    UNION {{[test |-> charts.figures[k].title, s |-> charts.figures[k].scatters[j]] :
                j \in 1..Len(charts.figures[k].scatters)} :
           k \in 1..Len(charts.figures)}

Charted == pc = "charted" /\ ~charts.raised

\* C5: for a non-empty selection there is one series for each
\* (patient, test) pair among the rows of the selected patients, holding
\* every observation of the pair, also for a test that only a patient other
\* than the first selected one has.
C5_SeriesForEveryPair ==
    (Charted /\ selected_names # <<>>) =>
        \A i \in 1..Len(table) :
            table[i]["Name"] \in Range(selected_names) =>
                /\ Cardinality({e \in AllSeries :
                                    /\ e.test = table[i]["Test Name"]
                                    /\ e.s.name = table[i]["Name"]}) = 1
                /\ \A e \in AllSeries :
                       (e.test = table[i]["Test Name"] /\ e.s.name = table[i]["Name"])
                           => Len(e.s.y) = Cardinality(PairRows(e.s.name, e.test))

\* the day, month and year written in a date text
DayOf(date) == DigitsToInt(Split(date, Slash)[1])

MonthOf(date) == DigitsToInt(Split(date, Slash)[2])

YearOf(date) == DigitsToInt(Split(date, Slash)[3])

\* point k of a series is the observation of row i
PointOfRow(e, k, i) ==
    /\ e.s.x[k].day = DayOf(table[i]["Date"])
    /\ e.s.x[k].month = MonthOf(table[i]["Date"])
    /\ e.s.x[k].year = YearOf(table[i]["Date"])
    /\ e.s.y[k] = float(table[i]["Value"])

Earliest(rows) ==
    {i \in rows : \A j \in rows :
        ~DateLess(strptime(table[j]["Date"]), strptime(table[i]["Date"]))}

\* C7: the low/high pair of every series comes from the reference range of
\* the observation of the series with the earliest collection date, whatever
\* the order of the table.
C7_RangeOfEarliest ==
    Charted =>
        \A e \in AllSeries :
            \E i \in Earliest(PairRows(e.s.name, e.test)) :
                LET ref == RefPair(<<table[i]["Reference Range"]>>)
                IN  e.s.low = ref.low /\ e.s.high = ref.high

\* C10: where the classifier reads the range of a series as two-sided with
\* bounds (low, high), the series is annotated with that pair; where the
\* classifier reads it as one-sided, the series carries a threshold.
ClassifierTwoSided(rr) == Len(Split(rr, Dash)) = 2

C10_SameShape ==
    Charted =>
        \A e \in AllSeries :
            \A rr \in {table[i]["Reference Range"] : i \in 1..Len(table)} :
                (\A i \in PairRows(e.s.name, e.test) :
                     table[i]["Reference Range"] = rr) =>
                    IF ClassifierTwoSided(rr)
                    THEN /\ e.s.low.kind = "str" /\ e.s.high.kind = "str"
                         /\ float(e.s.low.str) = LowOf(rr)
                         /\ float(e.s.high.str) = HighOf(rr)
                    ELSE e.s.high.kind = "float"

====
